---- MODULE Spec2Model ----
(***************************************************************************)
(* Reminder scheduling and webhook dispatch (src/src/reminders.py).        *)
(*                                                                         *)
(* The store is the `reminders` table of the configured backend: SQLite    *)
(* (the default of src/src/server.py) or PostgreSQL (DATABASE_URL set).    *)
(* A row's id is its insertion index.                                      *)
(* Time is counted in half seconds: an even instant is a whole second and  *)
(* is written by _to_utc_iso without a fraction ("...:05Z"), an odd one    *)
(* carries microseconds ("...:05.500000Z").  SQLite compares the stored    *)
(* TEXT timestamps as strings, PostgreSQL compares TIMESTAMPTZ values.     *)
(* On SQLite the rows read are sqlite3.Row objects, which have no `get`    *)
(* method, so _row_to_record raises AttributeError for every row.          *)
(*                                                                         *)
(* Every action is one atomic step of the program: a synchronous section   *)
(* of a coroutine between two awaits, or one tool call of the service.     *)
(***************************************************************************)
EXTENDS Integers, Sequences, FiniteSets, TLC

VARIABLES
    now,      \* wall clock, datetime.now(UTC), in half seconds
    cfg,      \* configuration after the constructors' clamping
    rows,     \* the reminders table, in insertion order
    task,     \* ReminderDispatcher._task of each process: 0 is None
    stop,     \* ReminderDispatcher._stop_event of each process
    tasks,    \* every asyncio task created by ensure_running, in creation order
    shut,     \* the tasks that the pending shutdown() calls of each process await
    hist,     \* history of each reminder: claims, POSTs, cancellations
    call      \* the latest recorded tool call with its outcome

vars == <<now, cfg, rows, task, stop, tasks, shut, hist, call>>

----------------------------------------------------------------------------
(* Bounds of the model *)

MaxTime == 3
MaxReminders == 1
MaxTasks == 3
MaxShutdowns == 2

(* The server process, and the processes that share one store. *)
Server == "p1"
Procs == {"p1", "p2"}

(* DATABASE_URL is set (PostgreSQL) or not (SQLite). *)
DatabaseUrlInputs == {FALSE, TRUE}

(* Constructor arguments explored by Init, in half seconds / items. *)
PollInputs == {0, 2}
BatchInputs == {2}
RetryBaseInputs == {0, 2}
RetryMaxInputs == {4}
MinLeadInputs == {-1, 0}

(* str(exc) of a failed POST, by its length. *)
ErrorInputs == {600}

(* Retry policies and attempt counts explored by RetrySpec. *)
RetryPolicyBaseInputs == {0, 2, 3}
RetryPolicyMaxInputs == {0, 4, 7}
AttemptInputs == {0, 1, 2, 3, 1022, 1023, 1024}

----------------------------------------------------------------------------
(* Helpers *)

Min(a, b) == IF a <= b THEN a ELSE b
Max(a, b) == IF a >= b THEN a ELSE b

None == <<>>
Some(x) == <<x>>

(* Half seconds in n seconds: timedelta(seconds=n). *)
Seconds(n) == n + n

(* _to_utc_iso: the rank of the ISO-8601 text of instant t among all such
   texts under string comparison.  Within one second the texts with a
   fraction ("05.500000Z") sort before the text without one ("05Z"),
   because "." < "Z". *)
IsoKey(t) == IF t % 2 = 0 THEN t + 1 ELSE t - 1

(* SQLite's `earliest_run <= ?` on two _to_utc_iso texts. *)
IsoLeq(a, b) == IsoKey(a) <= IsoKey(b)

(* The sort key of a timestamp column: the text on SQLite, the instant on
   PostgreSQL. *)
TimeKey(t) == IF cfg.mode = "sqlite" THEN IsoKey(t) ELSE t

(* `earliest_run <= now` as the backend evaluates it. *)
TimeLeq(a, b) == TimeKey(a) <= TimeKey(b)

----------------------------------------------------------------------------
(* ReminderRequestModel and ReminderPayloadModel *)

(* Text arguments: lists of characters, " " being whitespace. *)
Texts == {<<>>, <<" ">>, <<"a">>, <<" ", "a", " ">>}

RECURSIVE LStrip(_)
LStrip(s) == IF s # <<>> /\ Head(s) = " " THEN LStrip(Tail(s)) ELSE s

RECURSIVE RStrip(_)
RStrip(s) ==
    IF s # <<>> /\ s[Len(s)] = " " THEN RStrip(SubSeq(s, 1, Len(s) - 1)) ELSE s

(* str.strip() *)
Strip(s) == RStrip(LStrip(s))

(* _strip_text, _strip_to, _strip_message: the value is stripped and must
   not be empty. *)
strip_text(value) == Strip(value) # <<>>

(* Mutant: the payload model without extra="forbid". *)
ReminderPayloadModelAllowingExtra(payload) ==
    /\ payload.given
    /\ {"to", "message"} \subseteq payload.keys
    /\ Strip(payload.to) # <<>>
    /\ Strip(payload.message) # <<>>

(* ReminderPayloadModel: `to` and `message` are required and not blank,
   extra keys are forbidden. *)
ReminderPayloadModel(payload) ==
    /\ payload.given
    /\ {"to", "message"} \subseteq payload.keys
    /\ payload.keys \subseteq {"to", "message"}
    /\ strip_text(payload.to)
    /\ strip_text(payload.message)

(* ReminderRequestModel.model_validate: title and message not blank,
   target_time with timezone information, a valid payload. *)
ReminderRequestModel(req) ==
    /\ strip_text(req.title)
    /\ strip_text(req.message)
    /\ req.tz
    /\ ReminderPayloadModel(req.payload)

(* A request that passes model_validate, firing at target_time. *)
WellFormed(target_time) ==
    [title       |-> <<" ", "a", " ">>,
     message     |-> <<"a">>,
     target_time |-> target_time,
     tz          |-> TRUE,
     payload     |-> [given |-> TRUE, keys |-> {"to", "message"},
                      to |-> <<"a">>, message |-> <<" ", "a", " ">>]]

(* A request, and the request with each single defect. *)
Variants(r) ==
    {r,
     [r EXCEPT !.title = <<>>],
     [r EXCEPT !.title = <<" ">>],
     [r EXCEPT !.message = <<" ">>],
     [r EXCEPT !.tz = FALSE],
     [r EXCEPT !.payload.given = FALSE],
     [r EXCEPT !.payload.keys = {"to"}],
     [r EXCEPT !.payload.keys = {"message"}],
     [r EXCEPT !.payload.keys = {"to", "message", "note"}],
     [r EXCEPT !.payload.to = <<" ">>],
     [r EXCEPT !.payload.message = <<>>]}

(* A well-formed request whose payload values are trimmed and hold the
   characters that json.dumps escapes. *)
WithEscapes(r) ==
    [r EXCEPT !.payload.to = <<"\"", "\\">>, !.payload.message = <<"a", " ", "\\">>]

Requests ==
    {WellFormed(t) : t \in 0 .. MaxTime + 1}
       \cup Variants(WellFormed(MaxTime + 1))
       \cup {WithEscapes(WellFormed(MaxTime + 1))}

(* The model object built by model_validate: the text fields stripped. *)
Validated(req) ==
    [title       |-> Strip(req.title),
     message     |-> Strip(req.message),
     target_time |-> req.target_time,
     payload     |-> [to |-> Strip(req.payload.to),
                      message |-> Strip(req.payload.message)]]

(* REMINDER_WEBHOOK_URL, by default. *)
WebhookUrl == "https://example.com/webhooks/reminders"

----------------------------------------------------------------------------
(* ReminderRepository: pure functions of the table *)

Ids(rws) == 1 .. Len(rws)

(* json.dumps of a str: `"` and `\` are escaped with a backslash, and the
   text is put between quotes. *)
RECURSIVE Escaped(_)
Escaped(s) ==
    IF s = <<>> THEN <<>>
    ELSE (IF Head(s) \in {"\"", "\\"} THEN <<"\\", Head(s)>> ELSE <<Head(s)>>)
         \o Escaped(Tail(s))

Quoted(s) == <<"\"">> \o Escaped(s) \o <<"\"">>

(* The number of backslashes that immediately precede s[i]. *)
BackslashesBefore(s, i) ==
    Cardinality({k \in 1 .. i - 1 : \A j \in i - k .. i - 1 : s[j] = "\\"})

(* s[i] is a backslash that escapes the character after it. *)
Escapes(s, i) == s[i] = "\\" /\ BackslashesBefore(s, i) % 2 = 0

(* json.loads of a JSON string: the quotes are dropped, and so are the
   backslashes that escape the character after them. *)
Unescaped(s) ==
    LET Kept(i) == ~Escapes(s, i)
        kept == SelectSeq([i \in 1 .. Len(s) |-> i], Kept)
    IN  [k \in 1 .. Len(kept) |-> s[kept[k]]]

Unquoted(q) == Unescaped(SubSeq(q, 2, Len(q) - 1))

(* json.dumps(request.payload.model_dump()): the members of the JSON object
   {"to": "...", "message": "..."} in order, each value as its JSON string. *)
json_dumps(payload) ==
    <<[key |-> "to", value |-> Quoted(payload.to)],
      [key |-> "message", value |-> Quoted(payload.message)]>>

(* The value of a key of a JSON object: a repeated key keeps its last
   value. *)
Member(members, key) ==
    LET last == CHOOSE m \in 1 .. Len(members) :
                   /\ members[m].key = key
                   /\ \A n \in m + 1 .. Len(members) : members[n].key # key
    IN  Unquoted(members[last].value)

(* json.loads(payload_raw): the payload map. *)
json_loads(text) ==
    [to |-> Member(text, "to"), message |-> Member(text, "message")]

(* create: INSERT ... 'pending', 0, NULL, created_at = updated_at = now. *)
create(rws, request, webhook_url, t) ==
    Append(rws, [id           |-> Len(rws) + 1,
                 title        |-> request.title,
                 message      |-> request.message,
                 payload_json |-> json_dumps(request.payload),
                 webhook_url  |-> webhook_url,
                 target_time  |-> request.target_time,
                 earliest_run |-> request.target_time,
                 status       |-> "pending",
                 attempts     |-> 0,
                 last_error   |-> None,
                 created_at   |-> t,
                 updated_at   |-> t,
                 sent_at      |-> None])

(* `row.get("sent_at")`: a sqlite3.Row has no attribute `get`. *)
RowGetRaises == cfg.mode = "sqlite"

(* _row_to_record: the ReminderRecord built from a row that was read. *)
row_to_record(row) ==
    [id           |-> row.id,
     title        |-> row.title,
     message      |-> row.message,
     target_time  |-> row.target_time,
     payload      |-> json_loads(row.payload_json),
     webhook_url  |-> row.webhook_url,
     status       |-> row.status,
     attempts     |-> row.attempts,
     last_error   |-> row.last_error,
     created_at   |-> row.created_at,
     updated_at   |-> row.updated_at,
     earliest_run |-> row.earliest_run,
     sent_at      |-> row.sent_at]

(* The outcome of a store operation: it raised, or it returned a value. *)
Raised == [raised |-> TRUE, value |-> <<>>]
Returned(value) == [raised |-> FALSE, value |-> value]

(* Mutant: the claim query without `status = 'pending'`. *)
DueIdsAnyStatus(rws, t) ==
    {i \in Ids(rws) : TimeLeq(rws[i].earliest_run, t)}

(* Mutant: the claim query with a lease timeout of one second on
   dispatching rows. *)
DueIdsWithLease(rws, t) ==
    {i \in Ids(rws) :
        \/ rws[i].status = "pending" /\ TimeLeq(rws[i].earliest_run, t)
        \/ rws[i].status = "dispatching" /\ rws[i].updated_at + 2 <= t}

(* The rows selected by acquire_due before LIMIT:
   WHERE status = 'pending' AND earliest_run <= now. *)
DueIds(rws, t) ==
    {i \in Ids(rws) : rws[i].status = "pending" /\ TimeLeq(rws[i].earliest_run, t)}

(* ORDER BY earliest_run ASC over the stored values; equal values come in
   insertion order (the index on (status, earliest_run) ends in the rowid). *)
Before(rws, i, j) ==
    \/ TimeKey(rws[i].earliest_run) < TimeKey(rws[j].earliest_run)
    \/ /\ rws[i].earliest_run = rws[j].earliest_run
       /\ i < j

RECURSIVE Ordered(_, _)
Ordered(rws, S) ==
    IF S = {} THEN <<>>
    ELSE LET first == CHOOSE i \in S : \A j \in S \ {i} : Before(rws, i, j)
         IN  <<first>> \o Ordered(rws, S \ {first})

Take(s, n) == SubSeq(s, 1, Min(n, Len(s)))

(* The ids selected by acquire_due: LIMIT max(1, limit). *)
Selected(rws, t, limit) == Take(Ordered(rws, DueIds(rws, t)), Max(1, limit))

InSeq(s, x) == \E k \in 1 .. Len(s) : s[k] = x

(* Mutant: acquire_due that returns the selected rows without the UPDATE. *)
acquire_due_without_update(rws, t, limit) ==
    LET ids == Selected(rws, t, limit)
        raised == ids # <<>> /\ RowGetRaises
    IN  [rows   |-> rws,
         raised |-> raised,
         batch  |-> IF raised THEN <<>>
                    ELSE [k \in 1 .. Len(ids) |-> row_to_record(rws[ids[k]])]]

(* acquire_due: select, then UPDATE ... SET status = 'dispatching',
   updated_at = now WHERE id = ?, and commit, in one transaction.  The
   records returned are built afterwards from the rows as selected:
   _row_to_record raises on the first of them on SQLite. *)
acquire_due(rws, t, limit) ==
    LET ids == Selected(rws, t, limit)
        raised == ids # <<>> /\ RowGetRaises
    IN  [rows   |-> [i \in Ids(rws) |->
                       IF InSeq(ids, i)
                       THEN [rws[i] EXCEPT !.status = "dispatching", !.updated_at = t]
                       ELSE rws[i]],
         raised |-> raised,
         batch  |-> IF raised THEN <<>>
                    ELSE [k \in 1 .. Len(ids) |-> row_to_record(rws[ids[k]])]]

(* Mutant: mark_sent that sets sent_at and updated_at but not the status. *)
mark_sent_keeping_status(rws, id, sent_at) ==
    [i \in Ids(rws) |->
       IF i = id
       THEN [rws[i] EXCEPT !.sent_at = Some(sent_at), !.updated_at = sent_at]
       ELSE rws[i]]

(* mark_sent: UPDATE ... SET status = 'sent', sent_at, updated_at WHERE id = ?. *)
mark_sent(rws, id, sent_at) ==
    [i \in Ids(rws) |->
       IF i = id
       THEN [rws[i] EXCEPT !.status = "sent", !.sent_at = Some(sent_at),
                           !.updated_at = sent_at]
       ELSE rws[i]]

(* error[:512] *)
ErrorLimit == 512
Truncate(error) == Min(error, ErrorLimit)

(* Mutant: record_failure that moves target_time with earliest_run. *)
record_failure_moving_target(rws, id, attempts, next_attempt, error, updated_at) ==
    [i \in Ids(rws) |->
       IF i = id
       THEN [rws[i] EXCEPT !.status = "pending", !.earliest_run = next_attempt,
                           !.target_time = next_attempt,
                           !.attempts = attempts,
                           !.last_error = Some(Truncate(error)),
                           !.updated_at = updated_at]
       ELSE rws[i]]

(* record_failure: UPDATE ... SET status = 'pending', earliest_run, attempts,
   last_error, updated_at WHERE id = ?. *)
record_failure(rws, id, attempts, next_attempt, error, updated_at) ==
    [i \in Ids(rws) |->
       IF i = id
       THEN [rws[i] EXCEPT !.status = "pending", !.earliest_run = next_attempt,
                           !.attempts = attempts,
                           !.last_error = Some(Truncate(error)),
                           !.updated_at = updated_at]
       ELSE rws[i]]

(* Mutant: cancel that matches pending rows only. *)
CancellablePendingOnly(rws, id) == id \in Ids(rws) /\ rws[id].status = "pending"

(* Mutant: cancel without the status condition. *)
CancellableAnyStatus(rws, id) == id \in Ids(rws)

(* cancel: the rows matched by WHERE id = ? AND status IN ('pending',
   'dispatching'). *)
Cancellable(rws, id) ==
    id \in Ids(rws) /\ rws[id].status \in {"pending", "dispatching"}

(* cancel: UPDATE ... SET status = 'cancelled', updated_at, last_error = NULL;
   returns rowcount > 0. *)
cancel(rws, id, cancelled_at) ==
    [rows |-> [i \in Ids(rws) |->
                 IF i = id /\ Cancellable(rws, id)
                 THEN [rws[i] EXCEPT !.status = "cancelled",
                                     !.updated_at = cancelled_at,
                                     !.last_error = None]
                 ELSE rws[i]],
     ok   |-> Cancellable(rws, id)]

----------------------------------------------------------------------------
(* ReminderDispatcher: retry policy *)

(* The largest n for which float(2 ** n) is finite is FloatMaxExp - 1:
   retry_base is a float, and float * int converts the int first, raising
   OverflowError from 2 ** 1024 on. *)
FloatMaxExp == 1024

(* self._retry_base * (2 ** (attempts - 1)) raises OverflowError. *)
BackoffRaises(attempts) == attempts - 1 >= FloatMaxExp

(* base * 2 ** n, not computed beyond the first value >= cap. *)
RECURSIVE Doubled(_, _, _)
Doubled(base, n, cap) ==
    IF n = 0 \/ base >= cap THEN base ELSE Doubled(base + base, n - 1, cap)

(* delay = min(self._retry_max, self._retry_base * (2 ** (attempts - 1))) *)
BackoffDelay(retry_base, retry_max, attempts) ==
    Min(retry_max, Doubled(retry_base, attempts - 1, retry_max))

(* ReminderRepository.__init__: the backend; ReminderDispatcher.__init__ and
   ReminderService.__init__: clamping. *)
Configure(database_url, poll, batch, retry_base, retry_max, min_lead) ==
    [mode          |-> IF database_url THEN "postgres" ELSE "sqlite",
     poll_interval |-> Max(Seconds(1), poll),
     batch_size    |-> Max(1, batch),
     retry_base    |-> Max(Seconds(1), retry_base),
     retry_max     |-> Max(Max(Seconds(1), retry_base), retry_max),
     min_lead      |-> Max(0, min_lead)]

Configs ==
    {Configure(db, p, b, rb, rm, ml) :
        db \in DatabaseUrlInputs, p \in PollInputs, b \in BatchInputs, rb \in RetryBaseInputs,
        rm \in RetryMaxInputs, ml \in MinLeadInputs}

----------------------------------------------------------------------------
(* History kept for each reminder (not program state):
   claims   - how many acquire_due calls returned it
   claimed  - returned by acquire_due and no record_failure applied since
   posts    - webhook POSTs begun for it
   failed   - webhook POSTs for it answered with an error
   cancelOk - cancel has returned true for it
   pendingCancel - cancel has returned true for it while it was pending *)

(* No tool call has been recorded. *)
NoCall == [op |-> "none", arg |-> <<>>, ok |-> FALSE, error |-> "", out |-> <<>>]

NoHistory ==
    [claims |-> 0, claimed |-> FALSE, posts |-> 0, failed |-> 0, cancelOk |-> FALSE,
     pendingCancel |-> FALSE]

BatchIds(batch) == {batch[k].id : k \in 1 .. Len(batch)}

Claimed(h, batch) ==
    [i \in 1 .. Len(h) |->
       IF i \in BatchIds(batch)
       THEN [h[i] EXCEPT !.claims = @ + 1, !.claimed = TRUE]
       ELSE h[i]]

Posted(h, id) == [h EXCEPT ![id].posts = @ + 1]

Failed(h, id) == [h EXCEPT ![id].failed = @ + 1]

FailureRecorded(h, id) == [h EXCEPT ![id].claimed = FALSE]

CancelRecorded(h, rws, id) ==
    [h EXCEPT ![id].cancelOk = TRUE,
              ![id].pendingCancel = @ \/ rws[id].status = "pending"]

----------------------------------------------------------------------------
(* ReminderDispatcher: the polling task *)

NewTask(p) ==
    [owner |-> p, pc |-> "new", batch |-> <<>>, idx |-> 0, wake |-> 0, cancel |-> FALSE]

Alive(tk) == tk.pc # "done"

(* _run from the `while` test to the next await: leave the loop when the stop
   event is set; otherwise acquire_due, then either asyncio.sleep or the
   POST of the first reminder of the batch (_dispatch: client.post).  An
   exception raised by acquire_due is caught by `except Exception` and ends
   _run. *)
Loop(tk, rws, h) ==
    IF stop[tk.owner]
    THEN [rows |-> rws, hist |-> h,
          task |-> [tk EXCEPT !.pc = "done", !.batch = <<>>, !.idx = 0, !.wake = 0]]
    ELSE LET got == acquire_due(rws, now, cfg.batch_size)
         IN  IF got.raised
             THEN [rows |-> got.rows, hist |-> h,
                   task |-> [tk EXCEPT !.pc = "done", !.batch = <<>>, !.idx = 0,
                                       !.wake = 0]]
             ELSE IF Len(got.batch) = 0
             THEN [rows |-> got.rows, hist |-> h,
                   task |-> [tk EXCEPT !.pc = "sleep", !.batch = <<>>, !.idx = 0,
                                       !.wake = now + cfg.poll_interval]]
             ELSE [rows |-> got.rows,
                   hist |-> Posted(Claimed(h, got.batch), got.batch[1].id),
                   task |-> [tk EXCEPT !.pc = "post", !.batch = got.batch,
                                       !.idx = 1, !.wake = 0]]

(* Mutant: _run that sleeps after the last reminder of a batch. *)
ContinueSleeping(tk, rws, h) ==
    IF tk.idx < Len(tk.batch)
    THEN [rows |-> rws,
          hist |-> Posted(h, tk.batch[tk.idx + 1].id),
          task |-> [tk EXCEPT !.idx = @ + 1]]
    ELSE [rows |-> rws, hist |-> h,
          task |-> [tk EXCEPT !.pc = "sleep", !.batch = <<>>, !.idx = 0,
                              !.wake = now + cfg.poll_interval]]

(* _run after _process_reminder returned: the next reminder of the batch is
   POSTed, or the loop goes round. *)
Continue(tk, rws, h) ==
    IF tk.idx < Len(tk.batch)
    THEN [rows |-> rws,
          hist |-> Posted(h, tk.batch[tk.idx + 1].id),
          task |-> [tk EXCEPT !.idx = @ + 1]]
    ELSE Loop(tk, rws, h)

(* _process_reminder, else branch: the POST succeeded. *)
Delivered(tk) ==
    Continue(tk, mark_sent(rows, tk.batch[tk.idx].id, now), hist)

(* _process_reminder, except branch: the POST failed with str(exc) = error.
   An OverflowError in the delay leaves the handler and ends _run. *)
DeliveryFailed(tk, error) ==
    LET reminder == tk.batch[tk.idx]
        attempts == reminder.attempts + 1
        next_attempt == now + BackoffDelay(cfg.retry_base, cfg.retry_max, attempts)
    IN  IF BackoffRaises(attempts)
        THEN [rows |-> rows, hist |-> Failed(hist, reminder.id),
              task |-> [tk EXCEPT !.pc = "done"]]
        ELSE Continue(tk,
                      record_failure(rows, reminder.id, attempts, next_attempt,
                                     error, now),
                      FailureRecorded(Failed(hist, reminder.id), reminder.id))

(* The ways the POST of the reminder task tk holds can be answered, with the
   store after the mark_sent or record_failure that follows. *)
Answers(tk) ==
    LET reminder == tk.batch[tk.idx]
        attempts == reminder.attempts + 1
        next_attempt == now + BackoffDelay(cfg.retry_base, cfg.retry_max, attempts)
    IN  {[rows |-> mark_sent(rows, reminder.id, now), hist |-> hist]}
           \cup {[rows |-> record_failure(rows, reminder.id, attempts, next_attempt,
                                          error, now),
                   hist |-> FailureRecorded(Failed(hist, reminder.id), reminder.id)] :
                     error \in {e \in ErrorInputs : ~BackoffRaises(attempts)}}

Step(t, out) ==
    /\ rows' = out.rows
    /\ hist' = out.hist
    /\ tasks' = [tasks EXCEPT ![t] = out.task]

Runnable(t) == t \in 1 .. Len(tasks) /\ Alive(tasks[t]) /\ ~tasks[t].cancel

(* The task's first step. *)
TaskStart(t) ==
    /\ Runnable(t)
    /\ tasks[t].pc = "new"
    /\ \E out \in {Loop(tasks[t], rows, hist)} : Step(t, out)
    /\ UNCHANGED <<call, now, cfg, task, stop, shut>>

(* asyncio.sleep(self._poll_interval) returns. *)
TaskWake(t) ==
    /\ Runnable(t)
    /\ tasks[t].pc = "sleep"
    /\ now >= tasks[t].wake
    /\ \E out \in {Loop(tasks[t], rows, hist)} : Step(t, out)
    /\ UNCHANGED <<call, now, cfg, task, stop, shut>>

(* The webhook answers 2xx. *)
PostOk(t) ==
    /\ Runnable(t)
    /\ tasks[t].pc = "post"
    /\ \E out \in {Delivered(tasks[t])} : Step(t, out)
    /\ UNCHANGED <<call, now, cfg, task, stop, shut>>

(* The POST raises: network error, timeout or raise_for_status. *)
PostFail(t, error) ==
    /\ Runnable(t)
    /\ tasks[t].pc = "post"
    /\ \E out \in {DeliveryFailed(tasks[t], error)} : Step(t, out)
    /\ UNCHANGED <<call, now, cfg, task, stop, shut>>

(* task.cancel() takes effect: CancelledError is raised at the await the
   task is suspended in (sleep or client.post), is not an Exception, and
   ends _run. *)
TaskCancelled(t) ==
    /\ t \in 1 .. Len(tasks)
    /\ Alive(tasks[t])
    /\ tasks[t].cancel
    /\ tasks' = [tasks EXCEPT ![t].pc = "done", ![t].wake = 0]
    /\ UNCHANGED <<call, now, cfg, rows, task, stop, shut, hist>>

----------------------------------------------------------------------------
(* ReminderDispatcher: ensure_running and shutdown *)

(* Mutant: ensure_running that tests `self._task` only. *)
LoopActiveIgnoringDone(p) == task[p] # 0

(* ensure_running: `if self._task and not self._task.done(): return`. *)
LoopActive(p) == task[p] # 0 /\ Alive(tasks[task[p]])

(* ensure_running, under the starter lock (no await inside it). *)
ensure_running(p) ==
    IF LoopActive(p)
    THEN UNCHANGED <<task, stop, tasks>>
    ELSE /\ Len(tasks) < MaxTasks
         /\ stop' = [stop EXCEPT ![p] = FALSE]
         /\ tasks' = Append(tasks, NewTask(p))
         /\ task' = [task EXCEPT ![p] = Len(tasks) + 1]

(* A direct call of the dispatcher's ensure_running. *)
EnsureRunning(p) ==
    /\ ensure_running(p)
    /\ UNCHANGED <<call, now, cfg, rows, shut, hist>>

(* The sequence s without its k-th element. *)
Without(s, k) == SubSeq(s, 1, k - 1) \o SubSeq(s, k + 1, Len(s))

(* shutdown up to `await self._task`; it returns at once when _task is None.
   A task that is already done is awaited without suspending, and
   `finally: self._task = None` runs in the same step.  Nothing keeps a
   second shutdown from being called while an earlier one is suspended: it
   awaits the same task. *)
Shutdown(p) ==
    /\ task[p] # 0
    /\ stop' = [stop EXCEPT ![p] = TRUE]
    /\ IF Alive(tasks[task[p]])
       THEN /\ Len(shut[p]) < MaxShutdowns
            /\ tasks' = [tasks EXCEPT ![task[p]].cancel = TRUE]
            /\ shut' = [shut EXCEPT ![p] = Append(@, task[p])]
            /\ UNCHANGED task
       ELSE /\ task' = [task EXCEPT ![p] = 0]
            /\ UNCHANGED <<tasks, shut>>
    /\ UNCHANGED <<call, now, cfg, rows, hist>>

(* A suspended shutdown resumes once the task it awaits is done:
   `finally: self._task = None`, whatever _task refers to by then. *)
ShutdownReturn(p) ==
    \E k \in 1 .. Len(shut[p]) :
       /\ ~Alive(tasks[shut[p][k]])
       /\ task' = [task EXCEPT ![p] = 0]
       /\ shut' = [shut EXCEPT ![p] = Without(@, k)]
       /\ UNCHANGED <<call, now, cfg, rows, stop, tasks, hist>>

----------------------------------------------------------------------------
(* ReminderService *)

(* Mutant: the lead-time test with `<`. *)
TooNearExclusive(target_time) == target_time < now + cfg.min_lead

(* schedule_reminder: `if request.target_time <= now + self._min_lead: raise`. *)
TooNear(target_time) == target_time <= now + cfg.min_lead

(* schedule_reminder in process p with a well-formed request: create, then
   ensure_running.  On SQLite create raises after its INSERT, when it reads
   the row back. *)
ScheduleReminder(p, target_time) ==
    /\ Len(rows) < MaxReminders
    /\ IF TooNear(target_time)
       THEN UNCHANGED vars
       ELSE /\ rows' = create(rows, Validated(WellFormed(target_time)), WebhookUrl, now)
            /\ hist' = Append(hist, NoHistory)
            /\ IF RowGetRaises
               THEN UNCHANGED <<task, stop, tasks>>
               ELSE ensure_running(p)
            /\ UNCHANGED <<call, now, cfg, shut>>

(* cancel_reminder: raises ValueError when cancel returns false. *)
CancelReminder(id) ==
    LET done == cancel(rows, id, now)
    IN  /\ rows' = done.rows
        /\ hist' = IF done.ok THEN CancelRecorded(hist, rows, id) ELSE hist
        /\ UNCHANGED <<call, now, cfg, task, stop, tasks, shut>>

(* Time passes, up to the instant `limit`. *)
Advance(limit) ==
    /\ now < limit
    /\ now' = now + 1
    /\ UNCHANGED <<call, cfg, rows, task, stop, tasks, shut, hist>>

Tick == Advance(MaxTime)

----------------------------------------------------------------------------
(* The server: one process, its tools, its dispatcher and the store *)

Init ==
    /\ now = 0
    /\ cfg \in Configs
    /\ rows = <<>>
    /\ task = [p \in Procs |-> 0]
    /\ stop = [p \in Procs |-> FALSE]
    /\ tasks = <<>>
    /\ shut = [p \in Procs |-> <<>>]
    /\ hist = <<>>
    /\ call = NoCall

LoopSteps ==
    \/ \E t \in 1 .. MaxTasks : TaskStart(t)
    \/ \E t \in 1 .. MaxTasks : TaskWake(t)
    \/ \E t \in 1 .. MaxTasks : PostOk(t)
    \/ \E t \in 1 .. MaxTasks, error \in ErrorInputs : PostFail(t, error)

Next ==
    \/ Tick
    \/ \E target_time \in now .. MaxTime : ScheduleReminder(Server, target_time)
    \/ \E id \in 1 .. MaxReminders : CancelReminder(id)
    \/ Shutdown(Server)
    \/ ShutdownReturn(Server)
    \/ LoopSteps
    \/ \E t \in 1 .. MaxTasks : TaskCancelled(t)

Spec == Init /\ [][Next]_vars

(* Several processes poll one store; none is shut down. *)
SharedNext ==
    \/ Tick
    \/ \E p \in Procs, target_time \in now .. MaxTime : ScheduleReminder(p, target_time)
    \/ \E p \in Procs : EnsureRunning(p)
    \/ \E id \in 1 .. MaxReminders : CancelReminder(id)
    \/ LoopSteps

SharedSpec == Init /\ [][SharedNext]_vars

(* One dispatcher under direct ensure_running and shutdown calls. *)
DispatcherNext ==
    \/ Tick
    \/ EnsureRunning(Server)
    \/ Shutdown(Server)
    \/ ShutdownReturn(Server)
    \/ \E t \in 1 .. MaxTasks : TaskStart(t)
    \/ \E t \in 1 .. MaxTasks : TaskWake(t)
    \/ \E t \in 1 .. MaxTasks : TaskCancelled(t)

DispatcherSpec == Init /\ [][DispatcherNext]_vars

----------------------------------------------------------------------------
(* The server kept running: the dispatcher is restarted whenever it is found
   stopped, the webhook answers every POST and stops failing after MaxTime,
   reminders are scheduled up to MaxTime, nothing is cancelled, and the clock
   runs on until every retry that can be scheduled has come due. *)

Horizon == MaxTime + 8

LiveTick == Advance(Horizon)

(* shutdown, while the dispatcher can still be started again. *)
LiveShutdown == Len(tasks) < MaxTasks /\ Shutdown(Server)

(* The webhook fails up to MaxTime. *)
LivePostFail(t, error) == now <= MaxTime /\ PostFail(t, error)

LiveLoopSteps ==
    \/ \E t \in 1 .. MaxTasks : TaskStart(t)
    \/ \E t \in 1 .. MaxTasks : TaskWake(t)
    \/ \E t \in 1 .. MaxTasks : PostOk(t)
    \/ \E t \in 1 .. MaxTasks, error \in ErrorInputs : LivePostFail(t, error)
    \/ \E t \in 1 .. MaxTasks : TaskCancelled(t)

LiveNext ==
    \/ LiveTick
    \/ \E target_time \in now .. MaxTime : ScheduleReminder(Server, target_time)
    \/ EnsureRunning(Server)
    \/ LiveShutdown
    \/ ShutdownReturn(Server)
    \/ LiveLoopSteps

(* The event loop runs every task that is ready, timers fire, and every POST
   is answered or times out.  Nothing starts a dispatcher that has stopped:
   ensure_running is called by schedule_reminder only. *)
LiveSpec ==
    /\ Init
    /\ [][LiveNext]_vars
    /\ WF_vars(LiveTick)
    /\ WF_vars(LiveLoopSteps)
    /\ WF_vars(ShutdownReturn(Server))

----------------------------------------------------------------------------
(* The retry policy on its own: a reminder that has failed `a` times is
   claimed again and its POST is in flight; the webhook then answers.  POSTs
   are begun on PostgreSQL only, acquire_due returning no batch on SQLite. *)

RetryConfigs ==
    {Configure(db, p, b, rb, rm, ml) :
        db \in {TRUE}, p \in PollInputs, b \in BatchInputs, rb \in RetryPolicyBaseInputs,
        rm \in RetryPolicyMaxInputs, ml \in MinLeadInputs}

(* The instant of the claim after `a` failures, the reminder having been
   claimed every 2 * retry_max from its target time on. *)
ClaimInstant(c, a) == 2 + a * (c.retry_max + c.retry_max)

(* The row after `a` failures, the last of them at instant t. *)
FailedRow(c, a, t) ==
    [create(<<>>, Validated(WellFormed(2)), WebhookUrl, 0)[1] EXCEPT
        !.earliest_run = IF a = 0 THEN 2
                         ELSE t + BackoffDelay(c.retry_base, c.retry_max, a),
        !.attempts     = a,
        !.last_error   = IF a = 0 THEN None ELSE Some(Truncate(600)),
        !.updated_at   = IF a = 0 THEN 0 ELSE t]

RetryInit ==
    \E c \in RetryConfigs, a \in AttemptInputs :
       /\ cfg = c
       /\ now = ClaimInstant(c, a)
       /\ rows = acquire_due(<<FailedRow(c, a, ClaimInstant(c, a - 1))>>,
                             ClaimInstant(c, a), c.batch_size).rows
       /\ hist = <<[claims |-> a + 1, claimed |-> TRUE, posts |-> a + 1,
                    failed |-> a, cancelOk |-> FALSE,
                    pendingCancel |-> FALSE]>>
       /\ tasks = <<[owner |-> Server, pc |-> "post",
                     batch |-> acquire_due(<<FailedRow(c, a, ClaimInstant(c, a - 1))>>,
                                           ClaimInstant(c, a), c.batch_size).batch,
                     idx |-> 1, wake |-> 0, cancel |-> FALSE]>>
       /\ task = [p \in Procs |-> IF p = Server THEN 1 ELSE 0]
       /\ stop = [p \in Procs |-> FALSE]
       /\ shut = [p \in Procs |-> <<>>]
       /\ call = NoCall

RetryNext ==
    \/ \E t \in 1 .. MaxTasks : PostOk(t)
    \/ \E t \in 1 .. MaxTasks, error \in ErrorInputs : PostFail(t, error)

RetrySpec == RetryInit /\ [][RetryNext]_vars

----------------------------------------------------------------------------
(* The tools of the server called with arbitrary arguments. *)

Other == "p2"

(* reminder_id arguments of cancel_reminder: 0 is a blank string, the
   others are ids, MaxReminders + 1 being the id of no reminder. *)
BlankId == 0
ReminderIds == 0 .. MaxReminders + 1

(* ReminderRepository.get: None for an absent id, the record otherwise. *)
get(rws, id) ==
    IF id \notin Ids(rws) THEN Returned(None)
    ELSE IF RowGetRaises THEN Raised
    ELSE Returned(Some(row_to_record(rws[id])))

(* No tool call is being handled. *)
Idle == call.op = "none"

(* The server is inside ReminderRepository.create, between the INSERT and
   the SELECT of self.get: its event loop runs nothing else. *)
InCreate == call.op = "create"

(* A tool has returned or raised, and its response is being sent. *)
Answering == call.op \in {"schedule", "cancel", "list"}

(* schedule_reminder up to the INSERT of create, while the store holds
   fewer than cap reminders.  A request that fails model_validate or the
   lead-time test raises ValueError. *)
ScheduleCallUpTo(req, cap) ==
    /\ Idle
    /\ IF ~ReminderRequestModel(req) \/ TooNear(req.target_time)
       THEN /\ call' = [op |-> "schedule", arg |-> req, ok |-> FALSE,
                        error |-> "ValueError", out |-> None]
            /\ UNCHANGED <<now, cfg, rows, task, stop, tasks, shut, hist>>
       ELSE /\ Len(rows) < cap
            /\ rows' = create(rows, Validated(req), WebhookUrl, now)
            /\ hist' = Append(hist, NoHistory)
            /\ call' = [op |-> "create", arg |-> req, ok |-> FALSE, error |-> "",
                        out |-> Some(Len(rows) + 1)]
            /\ UNCHANGED <<now, cfg, task, stop, tasks, shut>>

ScheduleCall(req) == ScheduleCallUpTo(req, MaxReminders)

(* schedule_reminder from `record = self.get(reminder_id)` on: the record is
   read back, ensure_running is called and the record is returned.  The
   AttributeError of the read leaves schedule_reminder before
   ensure_running. *)
ScheduleReturn ==
    /\ InCreate
    /\ LET record == get(rows, call.out[1])
       IN  IF record.raised
           THEN /\ call' = [op |-> "schedule", arg |-> call.arg, ok |-> FALSE,
                            error |-> "AttributeError", out |-> None]
                /\ UNCHANGED <<task, stop, tasks>>
           ELSE /\ ensure_running(Server)
                /\ call' = [op |-> "schedule", arg |-> call.arg, ok |-> TRUE,
                            error |-> "", out |-> record.value]
    /\ UNCHANGED <<now, cfg, rows, shut, hist>>

(* cancel_reminder: a blank id raises before the store is touched; otherwise
   cancel is applied and ValueError is raised when it returns false. *)
CancelCall(reminder_id) ==
    /\ Idle
    /\ LET done == IF reminder_id = BlankId
                   THEN [rows |-> rows, ok |-> FALSE]
                   ELSE cancel(rows, reminder_id, now)
       IN  /\ rows' = done.rows
           /\ hist' = IF done.ok THEN CancelRecorded(hist, rows, reminder_id) ELSE hist
           /\ call' = [op |-> "cancel", arg |-> reminder_id, ok |-> done.ok,
                       error |-> IF done.ok THEN "" ELSE "ValueError",
                       out |-> IF done.ok
                               THEN Some([reminder_id |-> reminder_id,
                                          status |-> "cancelled",
                                          cancelled_at |-> now])
                               ELSE None]
    /\ UNCHANGED <<now, cfg, task, stop, tasks, shut>>

(* The response of the tool call has been sent. *)
Return ==
    /\ Answering
    /\ call' = NoCall
    /\ UNCHANGED <<now, cfg, rows, task, stop, tasks, shut, hist>>

(* A step of a polling task whose process is not inside a synchronous call. *)
Unblocked(t) ==
    /\ t \in 1 .. Len(tasks)
    /\ ~Answering
    /\ tasks[t].owner = Server => ~InCreate

ServiceLoopSteps ==
    \/ \E t \in 1 .. MaxTasks : Unblocked(t) /\ TaskStart(t)
    \/ \E t \in 1 .. MaxTasks : Unblocked(t) /\ TaskWake(t)
    \/ \E t \in 1 .. MaxTasks : Unblocked(t) /\ PostOk(t)
    \/ \E t \in 1 .. MaxTasks, error \in ErrorInputs : Unblocked(t) /\ PostFail(t, error)

ServiceMinLeadInputs == {-1, 1}

ServiceConfigs ==
    {Configure(db, p, b, rb, rm, ml) :
        db \in DatabaseUrlInputs, p \in {2}, b \in BatchInputs, rb \in {2},
        rm \in RetryMaxInputs, ml \in ServiceMinLeadInputs}

ServiceInit ==
    /\ now = 0
    /\ cfg \in ServiceConfigs
    /\ rows = <<>>
    /\ task = [p \in Procs |-> 0]
    /\ stop = [p \in Procs |-> FALSE]
    /\ tasks = <<>>
    /\ shut = [p \in Procs |-> <<>>]
    /\ hist = <<>>
    /\ call = NoCall

ServiceNext ==
    \/ ~Answering /\ Tick
    \/ \E req \in Requests : ScheduleCall(req)
    \/ ScheduleReturn
    \/ \E reminder_id \in ReminderIds : CancelCall(reminder_id)
    \/ Return
    \/ ServiceLoopSteps

ServiceSpec == ServiceInit /\ [][ServiceNext]_vars

(* The same, while the dispatcher of a second process polls the store. *)
RaceNext ==
    \/ ServiceNext
    \/ ~Answering /\ EnsureRunning(Other)

RaceSpec == ServiceInit /\ [][RaceNext]_vars

----------------------------------------------------------------------------
(* list_reminders over stores that hold many cancelled reminders *)

(* list_reminders(status=None, limit=20) *)
DefaultLimit == 20

(* limit = max(1, min(limit, 1000)) *)
MaxLimit == 1000

(* status arguments: "" stands for None and the empty string (`if status:`). *)
StatusInputs == {"", "pending", "cancelled", "sent"}

LimitInputs == {0, 1, DefaultLimit, MaxLimit + 1}

(* list_reminders: SELECT * FROM reminders [WHERE status = ?]
   ORDER BY earliest_run ASC LIMIT max(1, min(limit, 1000)), then
   _row_to_record for every row read. *)
list_reminders(rws, status, limit) ==
    LET matching == {i \in Ids(rws) : status = "" \/ rws[i].status = status}
        ids == Take(Ordered(rws, matching), Max(1, Min(limit, MaxLimit)))
    IN  IF ids # <<>> /\ RowGetRaises THEN Raised
        ELSE Returned([k \in 1 .. Len(ids) |-> row_to_record(rws[ids[k]])])

(* The list_reminders tool. *)
ListCall(status, limit) ==
    /\ Idle
    /\ LET records == list_reminders(rows, status, limit)
       IN  call' = [op |-> "list", arg |-> [status |-> status, limit |-> limit],
                    ok |-> ~records.raised,
                    error |-> IF records.raised THEN "AttributeError" ELSE "",
                    out |-> records.value]
    /\ UNCHANGED <<now, cfg, rows, task, stop, tasks, shut, hist>>

(* The store after n schedule_reminder calls at instant 0, each for
   instant 2: the i-th row is the one create appends to i - 1 rows. *)
Scheduled(n) ==
    [i \in 1 .. n |->
       create([j \in 1 .. i - 1 |-> <<>>], Validated(WellFormed(2)), WebhookUrl, 0)[i]]

(* ... and after cancel_reminder calls for the first k of them, at instant
   0: each cancel changes the row of its id only. *)
CancelledFirst(rws, k) ==
    [i \in Ids(rws) |-> IF i <= k THEN cancel(rws, i, 0).rows[i] ELSE rws[i]]

(* How many reminders were cancelled, and how many were left pending. *)
CancelledCounts == {0, 1, 2, DefaultLimit, DefaultLimit + 1}
PendingCounts == {0, 1}

(* The server after those calls, before the first step of its loop; on
   SQLite schedule_reminder has raised each time and no loop was started. *)
ListInit ==
    \E k \in CancelledCounts, m \in PendingCounts :
       /\ now = 0
       /\ cfg \in ServiceConfigs
       /\ cfg.min_lead = 0
       /\ rows = CancelledFirst(Scheduled(k + m), k)
       /\ hist = [i \in 1 .. k + m |->
                    IF i <= k
                    THEN [NoHistory EXCEPT !.cancelOk = TRUE, !.pendingCancel = TRUE]
                    ELSE NoHistory]
       /\ tasks = IF k + m = 0 \/ RowGetRaises THEN <<>> ELSE <<NewTask(Server)>>
       /\ task = [p \in Procs |->
                    IF p = Server /\ k + m > 0 /\ ~RowGetRaises THEN 1 ELSE 0]
       /\ stop = [p \in Procs |-> FALSE]
       /\ shut = [p \in Procs |-> <<>>]
       /\ call = NoCall

ListNext ==
    \/ ~Answering /\ Tick
    \/ \E status \in StatusInputs, limit \in LimitInputs : ListCall(status, limit)
    \/ \E reminder_id \in ReminderIds : CancelCall(reminder_id)
    \/ Return
    \/ ServiceLoopSteps

ListSpec == ListInit /\ [][ListNext]_vars

----------------------------------------------------------------------------
(* The server process is killed and started again *)

(* The store as a kill can find it while task tk runs from one await to the
   next.  _run and _process_reminder commit one store operation after
   another: the POST was answered with an error and record_failure has not
   run; mark_sent or record_failure has committed and nothing after it; the
   acquire_due at the top of the loop has committed its UPDATE and has not
   returned (no call has returned the rows it marked); acquire_due has
   returned its batch and the POST of the first reminder has not begun. *)
KillPoints(tk) ==
    LET claimed(rws, h) ==
            LET got == acquire_due(rws, now, cfg.batch_size)
            IN  {[rows |-> got.rows, hist |-> h],
                 [rows |-> got.rows,
                  hist |-> IF got.raised THEN h ELSE Claimed(h, got.batch)]}
    IN  IF tk.pc = "post"
        THEN {[rows |-> rows, hist |-> Failed(hist, tk.batch[tk.idx].id)]}
                \cup Answers(tk)
                \cup UNION {claimed(out.rows, out.hist) :
                              out \in {o \in Answers(tk) :
                                         tk.idx = Len(tk.batch) /\ ~stop[tk.owner]}}
        ELSE IF /\ ~stop[tk.owner]
                /\ tk.pc = "new" \/ (tk.pc = "sleep" /\ now >= tk.wake)
        THEN claimed(rows, hist)
        ELSE {}

(* The store as a kill of process p can find it: between two steps; inside
   a step of one of its tasks (one coroutine runs at a time); inside
   ReminderRepository.cancel, after the UPDATE is committed and before
   cancel returns. *)
KillStates(p) ==
    {[rows |-> rows, hist |-> hist]}
       \cup UNION {KillPoints(tasks[t]) :
                     t \in {u \in 1 .. Len(tasks) :
                              Runnable(u) /\ Unblocked(u) /\ tasks[u].owner = p}}
       \cup {[rows |-> cancel(rows, id, now).rows, hist |-> hist] :
               id \in {i \in Ids(rows) : Idle}}

(* Process p is dead with the store as in `out`, and is started again: its
   tasks are gone with what they held in memory, without mark_sent or
   record_failure for the reminders they hold, a tool call it was handling is never
   answered, and the new process has a new dispatcher (_task None, stop
   event clear, no shutdown pending). *)
Killed(p, out) ==
    /\ rows' = out.rows
    /\ hist' = out.hist
    /\ tasks' = [t \in 1 .. Len(tasks) |->
                   IF tasks[t].owner = p /\ Alive(tasks[t])
                   THEN [tasks[t] EXCEPT !.pc = "done", !.batch = <<>>, !.idx = 0,
                                         !.wake = 0, !.cancel = FALSE]
                   ELSE tasks[t]]
    /\ task' = [task EXCEPT ![p] = 0]
    /\ stop' = [stop EXCEPT ![p] = FALSE]
    /\ shut' = [shut EXCEPT ![p] = <<>>]
    /\ call' = IF p = Server THEN NoCall ELSE call
    /\ UNCHANGED <<now, cfg>>

(* The process is killed (SIGKILL, power loss) at any point, between the
   commits of one step too, and started again. *)
Crash(p) == \E out \in KillStates(p) : Killed(p, out)

(* The process is killed inside schedule_reminder, after create has stored
   the row and before ensure_running. *)
CrashInSchedule(p, target_time) ==
    /\ Len(rows) < MaxReminders
    /\ ~TooNear(target_time)
    /\ Killed(p, [rows |-> create(rows, Validated(WellFormed(target_time)),
                                  WebhookUrl, now),
                  hist |-> Append(hist, NoHistory)])

LeaseNext ==
    \/ Tick
    \/ \E target_time \in {1, 2} : ScheduleReminder(Server, target_time)
    \/ \E id \in 1 .. MaxReminders : CancelReminder(id)
    \/ EnsureRunning(Server)
    \/ Crash(Server)
    \/ \E target_time \in {1, 2} : CrashInSchedule(Server, target_time)
    \/ LoopSteps

LeaseSpec == ServiceInit /\ [][LeaseNext]_vars

----------------------------------------------------------------------------
(* The server process with its reminder tools, killed and started again *)

(* The tools of the server and its polling loop.  The process is killed at
   any point, inside create and between the commits of a loop step too, and
   started again by the module-level wiring of server.py: the new
   dispatcher has no task, the store is as the kill left it.  The
   dispatcher is shut down between tool calls; server.py itself has no call
   of shutdown. *)
WiringNext ==
    \/ ~Answering /\ Tick
    \/ \E req \in {WellFormed(t) : t \in {0, 2}} :
          ScheduleCallUpTo(req, MaxReminders + 1)
    \/ ScheduleReturn
    \/ \E reminder_id \in ReminderIds : CancelCall(reminder_id)
    \/ ListCall("", DefaultLimit)
    \/ Return
    \/ ServiceLoopSteps
    \/ \E t \in 1 .. MaxTasks : Unblocked(t) /\ TaskCancelled(t)
    \/ Idle /\ Shutdown(Server)
    \/ ~InCreate /\ ShutdownReturn(Server)
    \/ Crash(Server)

WiringSpec == ServiceInit /\ [][WiringNext]_vars

----------------------------------------------------------------------------
(* The store fails under the polling loop *)

StoreOperations == {"acquire_due", "mark_sent", "record_failure"}

(* A store operation called by task t raises (the database is unreachable or
   locked) and changes no row.  acquire_due raises at the top of the loop,
   which the task reaches when it starts, when its sleep ends, and, with no
   await in between, when the POST of the last reminder of its batch was
   answered and mark_sent or record_failure has stored the outcome;
   mark_sent or record_failure raises after the POST was answered.  The
   exception is caught by `except Exception` in _run, and _run returns. *)
StoreRaises(t, op) ==
    /\ Runnable(t)
    /\ \/ /\ op = "acquire_due"
          /\ ~stop[tasks[t].owner]
          /\ \/ tasks[t].pc = "new"
             \/ tasks[t].pc = "sleep" /\ now >= tasks[t].wake
          /\ tasks' = [tasks EXCEPT ![t].pc = "done", ![t].wake = 0]
          /\ UNCHANGED <<rows, hist>>
       \/ /\ op = "acquire_due"
          /\ ~stop[tasks[t].owner]
          /\ tasks[t].pc = "post"
          /\ tasks[t].idx = Len(tasks[t].batch)
          /\ \E out \in Answers(tasks[t]) :
                /\ rows' = out.rows
                /\ hist' = out.hist
          /\ tasks' = [tasks EXCEPT ![t].pc = "done", ![t].batch = <<>>,
                                    ![t].idx = 0, ![t].wake = 0]
       \/ /\ op \in {"mark_sent", "record_failure"}
          /\ tasks[t].pc = "post"
          /\ tasks' = [tasks EXCEPT ![t].pc = "done", ![t].wake = 0]
          /\ hist' = IF op = "record_failure"
                     THEN Failed(hist, tasks[t].batch[tasks[t].idx].id)
                     ELSE hist
          /\ UNCHANGED rows
    /\ UNCHANGED <<call, now, cfg, task, stop, shut>>

FaultNext ==
    \/ Tick
    \/ \E target_time \in now .. MaxTime : ScheduleReminder(Server, target_time)
    \/ \E id \in 1 .. MaxReminders : CancelReminder(id)
    \/ EnsureRunning(Server)
    \/ LoopSteps
    \/ \E t \in 1 .. MaxTasks, op \in StoreOperations : StoreRaises(t, op)

FaultSpec == Init /\ [][FaultNext]_vars

----------------------------------------------------------------------------
(* The polling loop over a store that holds more due reminders than a batch *)

TargetInputs == {1, 2}

(* The store after schedule_reminder calls at instant 0 for the instants
   target[1], target[2], ...: the i-th row is the one create appends to
   i - 1 rows. *)
ScheduledFor(target) ==
    [i \in DOMAIN target |->
       create([j \in 1 .. i - 1 |-> <<>>], Validated(WellFormed(target[i])),
              WebhookUrl, 0)[i]]

(* The server after batch_size + 1 schedule_reminder calls, before the first
   step of its loop; on SQLite each call has raised and no loop was
   started. *)
BatchInit ==
    /\ now = 0
    /\ cfg \in Configs
    /\ cfg.min_lead = 0
    /\ \E target \in [1 .. cfg.batch_size + 1 -> TargetInputs] :
          rows = ScheduledFor(target)
    /\ hist = [i \in 1 .. cfg.batch_size + 1 |-> NoHistory]
    /\ tasks = IF RowGetRaises THEN <<>> ELSE <<NewTask(Server)>>
    /\ task = [p \in Procs |-> IF p = Server /\ ~RowGetRaises THEN 1 ELSE 0]
    /\ stop = [p \in Procs |-> FALSE]
    /\ shut = [p \in Procs |-> <<>>]
    /\ call = NoCall

BatchNext ==
    \/ Tick
    \/ EnsureRunning(Server)
    \/ \E id \in 1 .. Len(rows) : CancelReminder(id)
    \/ LoopSteps

BatchSpec == BatchInit /\ [][BatchNext]_vars

----------------------------------------------------------------------------
(* Properties *)

Reminders == 1 .. Len(rows)

(* C1: claim exclusivity.  Whenever an acquire_due call returns a reminder
   that an earlier acquire_due call (of any process) has returned, a
   record_failure for that reminder was applied between the two calls. *)
C1_ClaimExclusivity ==
    [][\A i \in Reminders :
          hist'[i].claims > hist[i].claims => ~hist[i].claimed]_vars

(* A reminder was returned by two acquire_due calls while two processes poll. *)
C1_Witness ==
    /\ \E i \in Reminders : hist[i].claims >= 2
    /\ \E t, u \in 1 .. Len(tasks) :
          /\ tasks[t].owner # tasks[u].owner
          /\ Alive(tasks[t])
          /\ Alive(tasks[u])

(* C2: cancelled is terminal.  Once a reminder's stored status is cancelled
   it stays cancelled, and its attempts, earliest_run, last_error and sent_at
   never change again. *)
C2_CancelledIsTerminal ==
    [][\A i \in Reminders :
          rows[i].status = "cancelled" =>
             /\ rows'[i].status = "cancelled"
             /\ rows'[i].attempts = rows[i].attempts
             /\ rows'[i].earliest_run = rows[i].earliest_run
             /\ rows'[i].last_error = rows[i].last_error
             /\ rows'[i].sent_at = rows[i].sent_at]_vars

(* C3: cancellation stops delivery.  Once cancel has returned true for a
   reminder, no further webhook POST is begun for it. *)
C3_NoPostAfterCancel ==
    [][\A i \in Reminders :
          hist[i].cancelOk => hist'[i].posts = hist[i].posts]_vars

(* C4: sent is terminal.  A reminder with status sent has sent_at set, and
   from then on it keeps status sent and a sent_at, no acquire_due call
   returns it and no cancel succeeds on it. *)
C4_SentIsTerminal ==
    /\ [](\A i \in Reminders : rows[i].status = "sent" => rows[i].sent_at # None)
    /\ [][\A i \in Reminders :
            rows[i].status = "sent" =>
               /\ rows'[i].status = "sent"
               /\ rows'[i].sent_at # None
               /\ hist'[i].claims = hist[i].claims
               /\ hist'[i].cancelOk = hist[i].cancelOk]_vars

(* A reminder was sent at an earlier instant, while two processes poll. *)
C4_Witness ==
    /\ \E i \in Reminders : rows[i].status = "sent" /\ rows[i].sent_at # Some(now)
    /\ \E t, u \in 1 .. Len(tasks) :
          /\ tasks[t].owner # tasks[u].owner
          /\ Runnable(t)
          /\ Runnable(u)

(* C5: attempts counts every delivery attempt.  A reminder whose
   first k POSTs failed and whose next POST succeeded has status sent and
   attempts = k + 1. *)
C5_AttemptsCountPosts ==
    \A i \in Reminders :
       rows[i].status = "sent" =>
          /\ hist[i].posts = hist[i].failed + 1
          /\ rows[i].attempts = hist[i].failed + 1

(* The reminders a task has claimed and not resolved by mark_sent or
   record_failure. *)
Unresolved(tk) ==
    IF tk.idx = 0 THEN {} ELSE {tk.batch[k].id : k \in tk.idx .. Len(tk.batch)}

(* shutdown() has cancelled task t and has returned. *)
ShutDown(t) ==
    /\ tasks[t].cancel
    /\ ~Alive(tasks[t])
    /\ ~InSeq(shut[tasks[t].owner], t)

(* C6: graceful shutdown.  After shutdown has returned, no reminder claimed
   by the loop it stopped is left in status dispatching. *)
C6_GracefulShutdown ==
    \A t \in 1 .. Len(tasks) :
       ShutDown(t) => \A i \in Unresolved(tasks[t]) : rows[i].status # "dispatching"

(* C7: single loop instance.  At most one polling task of a dispatcher is
   running at any time. *)
C7_SingleLoop ==
    \A p \in Procs :
       Cardinality({t \in 1 .. Len(tasks) : tasks[t].owner = p /\ Runnable(t)}) <= 1

(* min(retry_max, retry_base * 2^a), by the formula of the claim. *)
ClaimedDelay(a) ==
    IF a >= 20 THEN cfg.retry_max ELSE Min(cfg.retry_max, cfg.retry_base * 2^a)

(* C9: backoff step.  When a delivery attempt for a reminder with previous
   attempts = a fails at time t, the stored record afterwards has status
   pending, attempts = a + 1 and earliest_run = t + min(retry_max,
   retry_base * 2^a). *)
C9_BackoffStep ==
    [][\A i \in Reminders :
          hist'[i].failed = hist[i].failed + 1 =>
             /\ rows'[i].status = "pending"
             /\ rows'[i].attempts = rows[i].attempts + 1
             /\ rows'[i].earliest_run = now + ClaimedDelay(rows[i].attempts)]_vars

(* The attempt counts over which the retry delay is examined. *)
AttemptRange == 1 .. FloatMaxExp + 2

(* C10: backoff saturation.  For every number of consecutive failures the
   retry delay is computed, never exceeds retry_max, is not below the delay
   of the failure before, and equals retry_max from some failure onward;
   retry_max is not below retry_base. *)
C10_BackoffSaturation ==
    LET delay(a) == BackoffDelay(cfg.retry_base, cfg.retry_max, a)
    IN  /\ cfg.retry_max >= cfg.retry_base
        /\ \A a \in AttemptRange :
              /\ ~BackoffRaises(a)
              /\ delay(a) <= cfg.retry_max
              /\ a > 1 => delay(a - 1) <= delay(a)
        /\ \E n \in 1 .. 8 : \A a \in AttemptRange : a >= n => delay(a) = cfg.retry_max

(* C8: eventual delivery.  Every reminder that was scheduled and is never
   cancelled eventually has status sent. *)
C8_EventualDelivery ==
    \A i \in 1 .. MaxReminders :
       [](i \in Reminders =>
            <>(i \in Reminders /\ rows[i].status \in {"sent", "cancelled"}))

----------------------------------------------------------------------------
(* Properties of the tool calls *)

(* The step is a schedule_reminder call that was validated and either
   rejected or taken to the INSERT. *)
ScheduleStep ==
    /\ Idle
    /\ \/ call'.op = "create"
       \/ call'.op = "schedule" /\ ~call'.ok

(* C11: minimum-lead boundary.  A well-formed schedule_reminder request is
   accepted exactly when target_time >= now + min_lead. *)
C11_AcceptedFromLead ==
    [][ScheduleStep /\ ReminderRequestModel(call'.arg) =>
          (call'.op = "create" <=> call'.arg.target_time >= now + cfg.min_lead)]_vars

(* C11 as amended: a well-formed schedule_reminder request is accepted
   exactly when target_time > now + min_lead; a request with target_time
   equal to now + min_lead is rejected. *)
C11_AcceptedBeyondLead ==
    [][ScheduleStep /\ ReminderRequestModel(call'.arg) =>
          (call'.op = "create" <=> call'.arg.target_time > now + cfg.min_lead)]_vars

(* A well-formed request at exactly now + min_lead, min_lead being positive,
   was rejected. *)
C11_Witness ==
    /\ call.op = "schedule"
    /\ call.error = "ValueError"
    /\ ReminderRequestModel(call.arg)
    /\ cfg.min_lead > 0
    /\ call.arg.target_time = now + cfg.min_lead

(* The request has one of the defects: title or message empty after
   trimming, payload missing, payload without or with blank `to` or
   `message`, payload with extra fields, target_time without timezone, or
   target_time too near. *)
Defective(req) ==
    \/ Strip(req.title) = <<>>
    \/ Strip(req.message) = <<>>
    \/ ~req.payload.given
    \/ "to" \notin req.payload.keys
    \/ "message" \notin req.payload.keys
    \/ Strip(req.payload.to) = <<>>
    \/ Strip(req.payload.message) = <<>>
    \/ req.payload.keys \ {"to", "message"} # {}
    \/ ~req.tz
    \/ req.target_time <= now + cfg.min_lead

(* C12: rejected scheduling has no side effect.  A schedule_reminder call
   with a defective request raises, and a call that raises leaves the store
   as it was and starts no dispatcher loop. *)
C12_RejectedHasNoEffect ==
    [][ScheduleStep =>
          /\ Defective(call'.arg) => call'.op = "schedule" /\ ~call'.ok
          /\ call'.op = "schedule" =>
                /\ rows' = rows
                /\ tasks' = tasks
                /\ task' = task
                /\ stop' = stop]_vars

(* A request whose payload carries an extra field was rejected while the
   dispatcher is not running. *)
C12_Witness ==
    /\ call.op = "schedule"
    /\ call.error = "ValueError"
    /\ "note" \in call.arg.payload.keys
    /\ ~LoopActive(Server)

(* The step is a cancel_reminder call that reached ReminderRepository.cancel. *)
CancelStep == Idle /\ call'.op = "cancel" /\ call'.arg # BlankId

(* C13: successful cancel.  cancel on a reminder whose status is pending or
   dispatching returns true and leaves it with status cancelled, and a
   reminder that was pending when cancelled is not returned by acquire_due
   afterwards. *)
C13_CancelSucceeds ==
    /\ [][CancelStep /\ call'.arg \in Reminders
             /\ rows[call'.arg].status \in {"pending", "dispatching"} =>
             call'.ok /\ rows'[call'.arg].status = "cancelled"]_vars
    /\ [][\A i \in Reminders :
             hist[i].pendingCancel => hist'[i].claims = hist[i].claims]_vars

(* A reminder was cancelled while pending, and the loop has polled after the
   cancellation at an instant not before the reminder's earliest_run. *)
C13_Witness ==
    \E i \in Reminders, t \in 1 .. Len(tasks) :
       /\ hist[i].pendingCancel
       /\ tasks[t].pc = "sleep"
       /\ tasks[t].wake - cfg.poll_interval > rows[i].updated_at
       /\ tasks[t].wake - cfg.poll_interval >= rows[i].earliest_run

(* C14: failed cancel is a no-op.  cancel on an id that is absent, already
   sent or already cancelled returns false and changes no record; and a
   cancel of a reminder for which an earlier cancel returned true returns
   false. *)
C14_FailedCancelIsNoOp ==
    /\ [][CancelStep /\ (call'.arg \in Reminders =>
                            rows[call'.arg].status \in {"sent", "cancelled"}) =>
             ~call'.ok /\ rows' = rows]_vars
    /\ [][CancelStep /\ call'.arg \in Reminders /\ hist[call'.arg].cancelOk =>
             ~call'.ok]_vars

(* C15: single delivery on success.  A reminder whose first webhook POST
   was answered with success has been POSTed exactly once and has status
   sent, in every later state. *)
C15_SingleDelivery ==
    \A i \in Reminders :
       rows[i].sent_at # None /\ hist[i].failed = 0 =>
          hist[i].posts = 1 /\ rows[i].status = "sent"

(* A reminder was delivered by its first POST, and the loop has polled at a
   later instant. *)
C15_Witness ==
    \E i \in Reminders, t \in 1 .. Len(tasks) :
       /\ rows[i].sent_at # None
       /\ hist[i].failed = 0
       /\ tasks[t].pc = "sleep"
       /\ Some(tasks[t].wake - cfg.poll_interval) # rows[i].sent_at
       /\ tasks[t].wake - cfg.poll_interval >= rows[i].updated_at

(* The step is a list_reminders call for the cancelled reminders. *)
ListCancelledStep == Idle /\ call'.op = "list" /\ call'.arg.status = "cancelled"

CancelledIds == {i \in Reminders : rows[i].status = "cancelled"}

ListedIds(out) == {out[k].id : k \in 1 .. Len(out)}

(* A reminder cancelled while pending, before any acquire_due returned it,
   is never claimed and never POSTed. *)
NeverDelivered ==
    \A i \in Reminders :
       hist[i].pendingCancel /\ hist[i].claims = 0 =>
          hist'[i].claims = 0 /\ hist'[i].posts = 0

(* C16: cancelled before due is never delivered, and
   list_reminders(status="cancelled"), with the default limit, returns
   exactly the reminders whose stored status is cancelled, each with status
   cancelled. *)
C16_ListsEveryCancelled ==
    [][/\ NeverDelivered
       /\ ListCancelledStep /\ call'.arg.limit = DefaultLimit =>
             /\ call'.ok
             /\ ListedIds(call'.out) = CancelledIds
             /\ \A k \in 1 .. Len(call'.out) : call'.out[k].status = "cancelled"]_vars

(* C17: create postcondition.  The id that create assigns is the id of no
   record already in the store, and the record that create returns has that
   id, status pending, attempts 0, earliest_run = target_time, and no
   last_error and sent_at. *)
C17_CreateReturnsPending ==
    /\ [][Idle /\ call'.op = "create" => call'.out[1] \notin Ids(rows)]_vars
    /\ [][InCreate /\ call'.op = "schedule" =>
             /\ call'.out # None
             /\ LET record == call'.out[1]
                IN  /\ record.id = call.out[1]
                    /\ record.status = "pending"
                    /\ record.attempts = 0
                    /\ record.earliest_run = call.arg.target_time
                    /\ record.last_error = None
                    /\ record.sent_at = None]_vars

(* limit arguments of acquire_due *)
AcquireLimitInputs == {0, 1, 2}

(* C18: acquire_due selection and frame.  acquire_due(now, limit), called in
   any state, returns at most max(1, limit) reminders, each of them pending
   with earliest_run <= now before the call; exactly the returned reminders
   have their status changed to dispatching, and every other record is
   unchanged. *)
C18_AcquireSelectsDue ==
    \A limit \in AcquireLimitInputs :
       LET got == acquire_due(rows, now, limit)
           returned == BatchIds(got.batch)
       IN  /\ Len(got.batch) <= Max(1, limit)
           /\ Cardinality(returned) = Len(got.batch)
           /\ \A i \in returned :
                 /\ i \in Reminders
                 /\ rows[i].status = "pending"
                 /\ rows[i].earliest_run <= now
                 /\ got.rows[i].status = "dispatching"
           /\ \A i \in Reminders \ returned : got.rows[i] = rows[i]
           /\ Len(got.rows) = Len(rows)

(* The live tasks that hold a claim on reminder i: it is in their batch and
   not yet resolved by mark_sent or record_failure. *)
Holders(i) ==
    {t \in 1 .. Len(tasks) : Alive(tasks[t]) /\ i \in Unresolved(tasks[t])}

(* C19: no overlapping delivery across dispatchers.  With several dispatcher
   loops on one store, a reminder is held by at most one loop at a time, so
   no two POSTs for it are in flight together. *)
C19_NoOverlappingDelivery ==
    \A i \in Reminders : Cardinality(Holders(i)) <= 1

(* The POST of a reminder is in flight in one process while the loop of
   another process has polled after the claim. *)
C19_Witness ==
    \E i \in Reminders, t, u \in 1 .. Len(tasks) :
       /\ tasks[t].owner # tasks[u].owner
       /\ tasks[t].pc = "post"
       /\ tasks[t].batch[tasks[t].idx].id = i
       /\ rows[i].status = "dispatching"
       /\ tasks[u].pc = "sleep"
       /\ tasks[u].wake - cfg.poll_interval > rows[i].updated_at

(* C20: non-expiring lease.  A reminder in status dispatching whose claiming
   worker has died is not returned by acquire_due however far now advances,
   and is changed by nothing but cancel. *)
C20_LeaseNeverExpires ==
    [][\A i \in Reminders :
          rows[i].status = "dispatching" /\ Holders(i) = {} =>
             /\ hist'[i].claims = hist[i].claims
             /\ \/ rows'[i] = rows[i]
                \/ rows'[i] = cancel(rows, i, now).rows[i]]_vars

(* The worker holding a reminder died, the clock has run to the end, and a
   new loop has polled more than a second after the claim. *)
C20_Witness ==
    \E i \in Reminders, u \in 1 .. Len(tasks) :
       /\ rows[i].status = "dispatching"
       /\ Holders(i) = {}
       /\ now = MaxTime
       /\ tasks[u].pc = "sleep"
       /\ tasks[u].wake - cfg.poll_interval >= rows[i].updated_at + 2

----------------------------------------------------------------------------
(* Properties of the polling loop and of the stored records *)

(* C21: delivery failures are absorbed.  Whenever a webhook POST fails,
   record_failure is applied once for that reminder (its attempts grow by
   one and last_error is set), no polling loop ends, and the loop goes on to
   POST the next reminder of the batch, if there is one. *)
C21_FailuresAbsorbed ==
    [][\A i \in Reminders :
          hist'[i].failed = hist[i].failed + 1 =>
             /\ rows'[i].attempts = rows[i].attempts + 1
             /\ rows'[i].last_error # None
             /\ \A t \in 1 .. Len(tasks) :
                   /\ Alive(tasks[t]) => Alive(tasks'[t])
                   /\ /\ tasks[t].pc = "post"
                      /\ tasks[t].batch[tasks[t].idx].id = i
                      /\ tasks[t].idx < Len(tasks[t].batch)
                      => tasks'[t].pc = "post" /\ tasks'[t].idx = tasks[t].idx + 1]_vars

(* The polling loop of process p has ended on its own: its task is done and
   shutdown was not called. *)
Crashed(p) == task[p] # 0 /\ ~Alive(tasks[task[p]])

(* C22: loop crash is final until restarted by a caller.  A polling loop
   that a raising store operation has ended takes no further step; while the
   loop of a dispatcher is ended no new loop appears except in a step that
   invokes ensure_running (directly, or through schedule_reminder); and a
   schedule_reminder that reaches ensure_running leaves a loop active. *)
C22_CrashIsFinal ==
    [][/\ \A t \in 1 .. Len(tasks) : ~Alive(tasks[t]) => tasks'[t] = tasks[t]
       /\ \A p \in Procs :
             Crashed(p) =>
                /\ \/ tasks' = tasks /\ task' = task
                   \/ EnsureRunning(p)
                   \/ \E target_time \in now .. MaxTime : ScheduleReminder(p, target_time)
                /\ Len(rows') > Len(rows) /\ ~RowGetRaises =>
                      task'[p] # 0 /\ Alive(tasks'[task'[p]])]_vars

(* mark_sent or record_failure raised while a reminder was being delivered,
   the loop ended leaving it dispatching, and a loop started later by
   ensure_running has polled. *)
C22_Witness ==
    \E i \in Reminders, t, u \in 1 .. Len(tasks) :
       /\ t < u
       /\ tasks[t].owner = tasks[u].owner
       /\ ~Alive(tasks[t])
       /\ i \in Unresolved(tasks[t])
       /\ rows[i].status = "dispatching"
       /\ tasks[u].pc = "sleep"

(* The payload values are already trimmed. *)
Trimmed(payload) ==
    Strip(payload.to) = payload.to /\ Strip(payload.message) = payload.message

(* The payload of reminder id as get returns it, <<>> when get raises. *)
PayloadRead(rws, id) ==
    LET record == get(rws, id)
    IN  IF record.raised THEN <<>> ELSE record.value[1].payload

(* What the round trip of a payload requires of a step. *)
PayloadRoundTrip ==
    /\ InCreate /\ call'.op = "schedule" /\ Trimmed(call.arg.payload) =>
          /\ PayloadRead(rows', call.out[1])
                = [to |-> call.arg.payload.to, message |-> call.arg.payload.message]
          /\ call'.ok
          /\ call'.out[1].payload = PayloadRead(rows', call.out[1])
    /\ \A i \in Ids(rows) :
          /\ PayloadRead(rows', i) # <<>>
          /\ PayloadRead(rows', i) = PayloadRead(rows, i)
    /\ LET records == list_reminders(rows', "", MaxLimit)
       IN  /\ ~records.raised
           /\ \A k \in 1 .. Len(records.value) :
                 records.value[k].payload = PayloadRead(rows', records.value[k].id)

(* C23: payload round-trip.  When create has stored a valid request whose
   payload values are trimmed, get returns the payload that was passed in,
   schedule_reminder returns it, list_reminders returns what get returns,
   and the payload get returns for a stored reminder is the same after every
   step of the loop and every cancel. *)
C23_PayloadRoundTrip == [][PayloadRoundTrip]_vars

(* What the shape of a list_reminders result requires of the step that
   answers list_reminders(status, limit). *)
ListShape ==
    call'.op = "list" =>
       /\ call'.ok
       /\ Len(call'.out) <= Min(Max(call'.arg.limit, 1), MaxLimit)
       /\ \A k \in 1 .. Len(call'.out) :
             call'.arg.status # "" => call'.out[k].status = call'.arg.status
       /\ \A k \in 1 .. Len(call'.out) - 1 :
             call'.out[k].earliest_run <= call'.out[k + 1].earliest_run
       /\ rows' = rows

(* C24: list result shape.  list_reminders(status, limit) does not fail, for
   a limit out of range either; it returns at most min(max(limit, 1), 1000)
   records, all of the requested status when one is given, in non-decreasing
   earliest_run order, and it leaves every row as it was. *)
C24_ListResultShape == [][ListShape]_vars

(* C25: resolve operations are guarded by status.  Whenever a POST is in
   flight for a reminder whose stored status is no longer dispatching, the
   mark_sent and the record_failure that the loop applies when the POST is
   answered leave the store as it is; and both leave it as it is for an id
   that is not stored. *)
C25_ResolveGuardedByStatus ==
    /\ \A t \in 1 .. Len(tasks), error \in ErrorInputs :
          Alive(tasks[t]) /\ tasks[t].pc = "post" =>
             LET reminder == tasks[t].batch[tasks[t].idx]
                 attempts == reminder.attempts + 1
                 next_attempt == now + BackoffDelay(cfg.retry_base, cfg.retry_max, attempts)
             IN  rows[reminder.id].status # "dispatching" =>
                    /\ mark_sent(rows, reminder.id, now) = rows
                    /\ record_failure(rows, reminder.id, attempts, next_attempt,
                                      error, now) = rows
    /\ mark_sent(rows, Len(rows) + 1, now) = rows
    /\ record_failure(rows, Len(rows) + 1, 1, now, 1, now) = rows

(* Task t begins a sleep in this step. *)
GoesToSleep(t) ==
    tasks'[t].pc = "sleep" /\ (tasks[t].pc # "sleep" \/ tasks'[t].wake # tasks[t].wake)

(* A POST begins for reminder i in this step. *)
PostBegins(i) == hist'[i].posts = hist[i].posts + 1

(* Task t applies mark_sent or record_failure to the reminder it POSTed. *)
Resolves(t) ==
    /\ tasks[t].pc = "post"
    /\ LET id == tasks[t].batch[tasks[t].idx].id
       IN  \/ rows'[id] = mark_sent(rows, id, now)[id]
           \/ /\ hist'[id].failed = hist[id].failed + 1
              /\ rows'[id].attempts = tasks[t].batch[tasks[t].idx].attempts + 1

(* What the processing order requires of a step. *)
BatchOrder ==
    /\ \A t \in 1 .. Len(tasks) :
          /\ \A k \in 1 .. Len(tasks'[t].batch) - 1 :
                tasks'[t].batch[k].earliest_run <= tasks'[t].batch[k + 1].earliest_run
          /\ GoesToSleep(t) =>
                /\ DueIds(rows', now) = {}
                /\ tasks'[t].wake = now + cfg.poll_interval
          /\ /\ tasks[t].pc = "post"
             /\ tasks'[t].pc = "post"
             /\ tasks'[t].batch # tasks[t].batch
             => /\ tasks[t].idx = Len(tasks[t].batch)
                /\ Resolves(t)
                /\ tasks'[t].idx = 1
    /\ \A i \in Reminders :
          PostBegins(i) =>
             \E t \in 1 .. Len(tasks) :
                /\ tasks'[t].pc = "post"
                /\ tasks'[t].batch[tasks'[t].idx].id = i
                /\ \/ tasks'[t].idx = 1 /\ tasks'[t].batch # tasks[t].batch
                   \/ /\ tasks'[t].batch = tasks[t].batch
                      /\ tasks'[t].idx = tasks[t].idx + 1
                      /\ Resolves(t)

(* C26: batch processing order.  The batch of a loop is in non-decreasing
   earliest_run order; a POST begins only for the first reminder of a batch
   just claimed, or for the next reminder of the batch in the step in which
   mark_sent or record_failure resolves the one before; a loop begins a
   sleep, of poll_interval, only when no pending reminder is due, so that
   after the last reminder of a batch it claims the due reminders that are
   left in the same step. *)
C26_BatchProcessingOrder == [][BatchOrder]_vars

(* A loop has claimed and resolved the two earlier of three due reminders,
   which were stored after the third, and without sleeping has claimed the
   third and begun its POST. *)
C26_Witness ==
    \E t \in 1 .. Len(tasks) :
       /\ tasks[t].pc = "post"
       /\ Len(rows) = 3
       /\ BatchIds(tasks[t].batch) = {1}
       /\ rows[1].target_time > rows[2].target_time
       /\ \A i \in {2, 3} :
             /\ hist[i].posts = 1
             /\ rows[i].status \in {"sent", "pending"}
             /\ rows[i].updated_at = now
       /\ hist[1].claims = 1

(* The columns written by create only. *)
CreationFields(row) ==
    [id          |-> row.id,
     title       |-> row.title,
     message     |-> row.message,
     payload     |-> row.payload_json,
     webhook_url |-> row.webhook_url,
     target_time |-> row.target_time,
     created_at  |-> row.created_at]

(* C27: creation-time fields are frozen.  No step changes the id, title,
   message, payload, webhook_url, target_time or created_at of a stored
   reminder, and no step removes a row from the store. *)
C27_CreationFieldsFrozen ==
    [][/\ Len(rows') >= Len(rows)
       /\ \A i \in Ids(rows) : CreationFields(rows'[i]) = CreationFields(rows[i])]_vars

(* A reminder was claimed, its delivery failed, it was re-scheduled and then
   cancelled, and it still has the fields it was created with. *)
C27_Witness ==
    \E i \in Reminders :
       /\ rows[i].status = "cancelled"
       /\ rows[i].attempts >= 1
       /\ rows[i].earliest_run > rows[i].target_time
       /\ rows[i].updated_at > rows[i].created_at
       /\ CreationFields(rows[i])
             = CreationFields(create(<<>>, Validated(WellFormed(rows[i].target_time)),
                                     WebhookUrl, rows[i].created_at)[1])

(* acquire_due has returned a batch to task t in this step; when it raises
   the loop ends without one. *)
Claims(t) ==
    \/ tasks'[t].pc = "post" /\ tasks'[t].batch # tasks[t].batch
    \/ /\ Alive(tasks[t]) /\ ~Alive(tasks'[t]) /\ ~tasks[t].cancel /\ ~stop[tasks[t].owner]
       /\ \E i \in Reminders : rows[i].status = "pending" /\ rows'[i].status = "dispatching"

(* C28: claimed snapshots match the store.  In the step in which acquire_due
   claims reminders for a loop it returns a record for each, and every
   record returned has status dispatching and updated_at = now and equals
   the record of the stored row as the claim transaction left it. *)
C28_ClaimedSnapshotsMatchStore ==
    [][\A t \in 1 .. Len(tasks) :
          Claims(t) =>
             /\ tasks'[t].pc = "post"
             /\ \A k \in 1 .. Len(tasks'[t].batch) :
                   /\ tasks'[t].batch[k].status = "dispatching"
                   /\ tasks'[t].batch[k].updated_at = now
                   /\ tasks'[t].batch[k] = row_to_record(rows'[tasks'[t].batch[k].id])]_vars

Statuses == {"pending", "dispatching", "sent", "cancelled"}

(* C29: sent_at tracks status.  In every reachable state every stored
   reminder has a sent_at if and only if its status is sent, its status is
   one of pending, dispatching, sent and cancelled, and its attempts is a
   natural number; and no step lowers the attempts of a stored reminder. *)
C29_SentAtTracksStatus ==
    /\ [](\A i \in Reminders :
             /\ rows[i].sent_at # None <=> rows[i].status = "sent"
             /\ rows[i].status \in Statuses
             /\ rows[i].attempts \in Nat)
    /\ [][\A i \in Ids(rows) : rows'[i].attempts >= rows[i].attempts]_vars

(* A reminder whose first delivery failed was delivered at the retry: it is
   sent, its sent_at is the instant of the delivery, and it keeps the one
   attempt that record_failure counted. *)
C29_Witness ==
    \E i \in Reminders :
       /\ rows[i].status = "sent"
       /\ rows[i].sent_at = Some(now)
       /\ rows[i].attempts = 1
       /\ hist[i].failed = 1

(* The server has no polling loop. *)
NoLoop == \A t \in 1 .. Len(tasks) : tasks[t].owner = Server => ~Alive(tasks[t])

(* schedule_reminder returns its record in this step: create has stored the
   row and read it back. *)
ScheduleSucceeds == InCreate /\ call'.op = "schedule" /\ call'.ok

(* What lazy start requires of a step. *)
LazyStart ==
    /\ Len(tasks') > Len(tasks) => ScheduleSucceeds
    /\ Idle /\ call'.op \in {"list", "cancel"} => tasks' = tasks /\ task' = task
    /\ NoLoop /\ ~ScheduleSucceeds =>
          /\ \A t \in 1 .. Len(tasks') : tasks'[t].owner = Server => ~Alive(tasks'[t])
          /\ \A i \in Ids(rows) :
                rows[i].status = "pending" => rows'[i].status \in {"pending", "cancelled"}
    /\ ScheduleSucceeds =>
          /\ task'[Server] # 0
          /\ Alive(tasks'[task'[Server]])
          /\ ~tasks'[task'[Server]].cancel

(* C30: lazy start only through scheduling.  A polling task is created only
   in the step in which schedule_reminder returns its record, after create
   stored the row; list_reminders and cancel_reminder leave the tasks as
   they are; while the server has no loop (after its start, a restart or
   a shutdown) no pending reminder is claimed and no loop appears until a
   schedule_reminder succeeds; and when one succeeds the dispatcher has a
   running loop. *)
C30_LazyStartOnlyThroughScheduling == [][LazyStart]_vars

====
